---- MODULE Spec2Model ----
(***************************************************************************)
(* Model of rpgm-asset-decrypter-lib (src/src/lib.rs): the Decrypter's key *)
(* store, the per-format key derivation and the 16-byte header XOR.        *)
(*                                                                         *)
(* Bytes are integers 0..255, buffers and strings are sequences of bytes   *)
(* (a &str is its UTF-8 bytes; the model's strings are ASCII).  Rust       *)
(* indices are 0-based, TLA+ sequences 1-based: Rust x[i] is x[i + 1].     *)
(***************************************************************************)
EXTENDS Integers, Sequences, FiniteSets, TLC

(***************************************************************************)
(* Program constants                                                       *)
(***************************************************************************)
HEADER_LENGTH == 16
KEY_LENGTH == 16
KEY_STR_LENGTH == 32
\* read_ogg_page_serialno's constants
HEADER_SIZE == 27
SERIALNO_POS == 14
U8_MAX == 255
\* set_key_from_file's M4A scan
CHUNK_SIZE == 4
M4A_SCAN_LENGTH == 64

\* b"0123456789abcdef"
HEX_CHARS == <<48, 49, 50, 51, 52, 53, 54, 55, 56, 57, 97, 98, 99, 100, 101, 102>>

\* "d41d8cd98f00b204e9800998ecf8427e"
DEFAULT_KEY ==
    <<100, 52, 49, 100, 56, 99, 100, 57, 56, 102, 48, 48, 98, 50, 48, 52,
      101, 57, 56, 48, 48, 57, 57, 56, 101, 99, 102, 56, 52, 50, 55, 101>>

PNG_HEADER ==
    <<137, 80, 78, 71, 13, 10, 26, 10, 0, 0, 0, 13, 73, 72, 68, 82>>

\* Initial values of the two `static mut` reference headers.
OGG_HEADER_INIT == <<79, 103, 103, 83, 0, 2, 0, 0, 0, 0, 0, 0, 0, 0, 0, 0>>
M4A_HEADER_INIT == <<0, 0, 0, 28, 102, 116, 121, 112, 77, 52, 65, 32, 0, 0, 2, 0>>

\* moov, mdat, free, skip, wide, pnot
M4A_POST_HEADER_BOXES ==
    { <<109, 111, 111, 118>>, <<109, 100, 97, 116>>, <<102, 114, 101, 101>>,
      <<115, 107, 105, 112>>, <<119, 105, 100, 101>>, <<112, 110, 111, 116>> }

RPGM_HEADER ==
    <<82, 80, 71, 77, 86, 0, 0, 0, 0, 3, 1, 0, 0, 0, 0, 0>>

FileType == {"PNG", "OGG", "M4A"}

\* The typed errors of enum Error; "Ok" and "Panic" are the other two ways
\* a call ends.
Errors == {"KeyNotSet", "InvalidKeyLength", "InvalidHeader", "UnexpectedEOF"}

(***************************************************************************)
(* Byte arithmetic and slices                                              *)
(***************************************************************************)
RECURSIVE XorBits(_, _)
\* Bitwise exclusive or of two naturals, bit by bit.
XorBits(a, b) ==
    IF a = 0 THEN b
    ELSE IF b = 0 THEN a
    ELSE ((a + b) % 2) + 2 * XorBits(a \div 2, b \div 2)

\* XorBits on bytes, tabulated once.
XorTable == [a \in 0..255 |-> [b \in 0..255 |-> XorBits(a, b)]]

\* u8 ^ u8
Xor(a, b) == XorTable[a][b]

\* <[u8]>::starts_with
starts_with(s, prefix) ==
    /\ Len(s) >= Len(prefix)
    /\ \A i \in 1..Len(prefix) : s[i] = prefix[i]

\* Rust s[from..to] for in-range bounds (0-based, `to` exclusive).
Slice(s, from, to) == [i \in 1..(to - from) |-> s[from + i]]

\* Rust s[from..]
SliceFrom(s, from) == Slice(s, from, Len(s))

\* u32::to_be_bytes
to_be_bytes(v) ==
    << (v \div 16777216) % 256, (v \div 65536) % 256, (v \div 256) % 256, v % 256 >>

\* u32::to_le_bytes
to_le_bytes(v) ==
    << v % 256, (v \div 256) % 256, (v \div 65536) % 256, (v \div 16777216) % 256 >>

(***************************************************************************)
(* Key store                                                               *)
(***************************************************************************)
\* char::to_digit(16) on one byte; -1 for "not a digit".
to_digit(c) ==
    IF c \in 48..57 THEN c - 48
    ELSE IF c \in 97..102 THEN c - 87
    ELSE IF c \in 65..70 THEN c - 55
    ELSE -1

\* u8::from_str_radix(pair, 16) on a two-byte string: an unsigned parse
\* strips one leading '+' (43) and then wants every remaining byte to be a
\* digit.  -1 stands for Err.
from_str_radix(pair) ==
    IF pair[1] = 43
    THEN to_digit(pair[2])
    ELSE IF to_digit(pair[1]) < 0 \/ to_digit(pair[2]) < 0 THEN -1
         ELSE 16 * to_digit(pair[1]) + to_digit(pair[2])

\* Decrypter::default()
Decrypter_new ==
    [ key_hex |-> [i \in 1..KEY_STR_LENGTH |-> 0],
      key     |-> [i \in 1..KEY_LENGTH |-> 0],
      has_key |-> FALSE ]

\* Index (0-based) of the first pair of key_hex that from_str_radix rejects,
\* KEY_LENGTH when every pair parses.
FirstBadPair(hex) ==
    LET bad == { j \in 0..(KEY_LENGTH - 1) :
                    from_str_radix(<<hex[2 * j + 1], hex[2 * j + 2]>>) < 0 }
    IN IF bad = {} THEN KEY_LENGTH
       ELSE CHOOSE j \in bad : \A k \in bad : j <= k

\* A mutant of set_key_from_hex: the key bytes are decoded but has_key is
\* not raised.
set_key_from_hex_no_flag(d) ==
    [ panic |-> FirstBadPair(d.key_hex) < KEY_LENGTH,
      d     |-> [ d EXCEPT !.key =
                    [j \in 1..KEY_LENGTH |->
                        IF j <= FirstBadPair(d.key_hex)
                        THEN from_str_radix(<<d.key_hex[2 * j - 1], d.key_hex[2 * j]>>)
                        ELSE d.key[j]] ] ]

\* Decrypter::set_key_from_hex: decodes key_hex pair by pair into key; the
\* unwrap() panics at the first pair that does not parse, leaving the
\* earlier bytes written and has_key as it was.
set_key_from_hex(d) ==
    LET bad == FirstBadPair(d.key_hex)
        decoded == [j \in 1..KEY_LENGTH |->
                      IF j <= bad
                      THEN from_str_radix(<<d.key_hex[2 * j - 1], d.key_hex[2 * j]>>)
                      ELSE d.key[j]]
    IN IF bad < KEY_LENGTH
       THEN [ panic |-> TRUE, d |-> [d EXCEPT !.key = decoded] ]
       ELSE [ panic |-> FALSE, d |-> [d EXCEPT !.key = decoded, !.has_key = TRUE] ]

\* Decrypter::key: None is <<>> with some = FALSE.
key_get(d) ==
    IF ~d.has_key THEN [some |-> FALSE, str |-> <<>>]
    ELSE [some |-> TRUE, str |-> d.key_hex]

\* Decrypter::set_key_from_str
set_key_from_str(d, s) ==
    IF Len(s) # KEY_STR_LENGTH
    THEN [ ret |-> "InvalidKeyLength", d |-> d ]
    ELSE LET r == set_key_from_hex([d EXCEPT !.key_hex = s])
         IN [ ret |-> IF r.panic THEN "Panic" ELSE "Ok", d |-> r.d ]

(***************************************************************************)
(* Transform engine                                                        *)
(***************************************************************************)
\* A mutant of xor_buffer: the key byte is added (wrapping), not XORed.
xor_buffer_add(d, buffer) ==
    [i \in 1..Len(buffer) |->
        IF i <= HEADER_LENGTH THEN (buffer[i] + d.key[i]) % 256 ELSE buffer[i]]

\* Decrypter::xor_buffer: XORs the first min(len, 16) bytes with the key.
xor_buffer(d, buffer) ==
    [i \in 1..Len(buffer) |->
        IF i <= HEADER_LENGTH THEN Xor(buffer[i], d.key[i]) ELSE buffer[i]]

(***************************************************************************)
(* Signature reconstruction                                                *)
(***************************************************************************)
RECURSIVE SumRange(_, _, _)
\* table[lo] + ... + table[hi], halving the range
SumRange(table, lo, hi) ==
    IF lo > hi THEN 0
    ELSE IF lo = hi THEN table[lo]
    ELSE SumRange(table, lo, (lo + hi) \div 2) + SumRange(table, ((lo + hi) \div 2) + 1, hi)

\* segment_table.iter().take(n) summed into body_length
SumTo(table, n) == SumRange(table, 1, n)

\* Decrypter::read_ogg_page_serialno on a Cursor over `content` at position
\* `pos`.  Both read_exact().unwrap() calls panic when fewer bytes are left
\* than asked for; the segment table read always asks for 255 bytes.
read_ogg_page_serialno(content, pos) ==
    IF pos + HEADER_SIZE > Len(content)
    THEN [ panic |-> TRUE, pos |-> pos, serialno |-> 0 ]
    ELSE LET header == Slice(content, pos, pos + HEADER_SIZE)
             segment_count == header[27]
         IN IF pos + HEADER_SIZE + U8_MAX > Len(content)
            THEN [ panic |-> TRUE, pos |-> pos + HEADER_SIZE, serialno |-> 0 ]
            ELSE LET segment_table ==
                         Slice(content, pos + HEADER_SIZE, pos + HEADER_SIZE + U8_MAX)
                     over_count == U8_MAX - segment_count
                     body_length == SumTo(segment_table, segment_count)
                 IN [ panic |-> FALSE,
                      pos |-> pos + HEADER_SIZE + U8_MAX - over_count + body_length,
                      serialno |->
                          header[SERIALNO_POS + 1]
                          + 256 * header[SERIALNO_POS + 2]
                          + 65536 * header[SERIALNO_POS + 3]
                          + 16777216 * header[SERIALNO_POS + 4] ]

\* (prev_chunk_i * CHUNK_SIZE) as u32, big-endian.  prev_chunk_i = -1 stands
\* for the wrapped usize::MAX of a build without overflow checks, whose
\* product truncates to 0xFFFFFFFC.
header_type_box_size_bytes(prev_chunk_i) ==
    IF prev_chunk_i < 0 THEN <<255, 255, 255, 252>>
    ELSE to_be_bytes(prev_chunk_i * CHUNK_SIZE)

RECURSIVE m4a_scan(_, _, _, _)
\* The loop over file_start.chunks_exact(4) from chunk i on: every chunk
\* equal to a known box tag overwrites M4A_HEADER[..4].  `i - 1` at i = 0
\* panics in a build with overflow checks and wraps in one without.
m4a_scan(m4a_header, file_start, i, overflow_checks) ==
    IF i * CHUNK_SIZE >= Len(file_start)
    THEN [ panic |-> FALSE, header |-> m4a_header ]
    ELSE LET chunk == Slice(file_start, i * CHUNK_SIZE, (i + 1) * CHUNK_SIZE)
         IN IF chunk \in M4A_POST_HEADER_BOXES
            THEN IF i = 0 /\ overflow_checks
                 THEN [ panic |-> TRUE, header |-> m4a_header ]
                 ELSE m4a_scan(
                        [k \in 1..HEADER_LENGTH |->
                            IF k <= CHUNK_SIZE
                            THEN header_type_box_size_bytes(i - 1)[k]
                            ELSE m4a_header[k]],
                        file_start, i + 1, overflow_checks)
            ELSE m4a_scan(m4a_header, file_start, i + 1, overflow_checks)

\* A mutant of signature_byte: the Ogg template is used for M4A as well.
signature_byte_ogg_for_m4a(g, file_type, i) ==
    CASE file_type = "PNG" -> PNG_HEADER[i + 1]
      [] file_type = "OGG" -> g.OGG_HEADER[i + 1]
      [] file_type = "M4A" -> g.OGG_HEADER[i + 1]

\* The match on file_type inside set_key_from_file's loop (i is 0-based).
signature_byte(g, file_type, i) ==
    CASE file_type = "PNG" -> PNG_HEADER[i + 1]
      [] file_type = "OGG" -> g.OGG_HEADER[i + 1]
      [] file_type = "M4A" -> g.M4A_HEADER[i + 1]

\* A mutant of hex_pair: the two nibbles are written in the wrong order.
hex_pair_swapped(value) ==
    << HEX_CHARS[(value % 16) + 1], HEX_CHARS[(value \div 16) + 1] >>

\* The pair (high, low) set_key_from_file writes for one key byte:
\* HEX_CHARS[value >> 4], HEX_CHARS[value & 0x0F].
hex_pair(value) ==
    << HEX_CHARS[(value \div 16) + 1], HEX_CHARS[(value % 16) + 1] >>

\* The key-building loop of set_key_from_file: key_hex from the reference
\* header of file_type XOR post_header.
derive_key_hex(g, file_type, post_header) ==
    [j \in 1..KEY_STR_LENGTH |->
        LET i == (j - 1) \div 2
            value == Xor(signature_byte(g, file_type, i), post_header[i + 1])
        IN hex_pair(value)[((j - 1) % 2) + 1]]

\* The tail of set_key_from_file, from the key-building loop on.
derive_and_store(d, g, file_type, post_header) ==
    LET r == set_key_from_hex(
                [d EXCEPT !.key_hex = derive_key_hex(g, file_type, post_header)])
    IN [ ret |-> IF r.panic THEN "Panic" ELSE "Ok",
         d |-> r.d, g |-> g, out |-> r.d.key_hex ]

\* set_key_from_file's OGG branch: two page parses on one cursor over
\* file_content[16..], then OGG_HEADER[14..16] from the second serialno.
set_key_from_file_ogg(d, g, file_content, post_header) ==
    LET content == SliceFrom(file_content, HEADER_LENGTH)
        p1 == read_ogg_page_serialno(content, 0)
    IN IF p1.panic THEN [ ret |-> "Panic", d |-> d, g |-> g, out |-> <<>> ]
       ELSE LET p2 == read_ogg_page_serialno(content, p1.pos)
            IN IF p2.panic THEN [ ret |-> "Panic", d |-> d, g |-> g, out |-> <<>> ]
               ELSE derive_and_store(d,
                       [g EXCEPT !.OGG_HEADER =
                           [k \in 1..HEADER_LENGTH |->
                               IF k \in 15..16 THEN to_le_bytes(p2.serialno)[k - 14]
                               ELSE g.OGG_HEADER[k]]],
                       "OGG", post_header)

\* set_key_from_file's M4A branch: needs the 64 bytes after the marker.
set_key_from_file_m4a(d, g, file_content, post_header, overflow_checks) ==
    IF Len(file_content) < HEADER_LENGTH + M4A_SCAN_LENGTH
    THEN [ ret |-> "UnexpectedEOF", d |-> d, g |-> g, out |-> <<>> ]
    ELSE LET file_start ==
                 Slice(file_content, HEADER_LENGTH, HEADER_LENGTH + M4A_SCAN_LENGTH)
             s == m4a_scan(g.M4A_HEADER, file_start, 0, overflow_checks)
         IN IF s.panic THEN [ ret |-> "Panic", d |-> d, g |-> g, out |-> <<>> ]
            ELSE derive_and_store(d, [g EXCEPT !.M4A_HEADER = s.header],
                                  "M4A", post_header)

\* A mutant of set_key_from_file: the length is tested before the marker.
set_key_from_file_eof_first(d, g, file_content, file_type, overflow_checks) ==
    IF Len(file_content) < 2 * HEADER_LENGTH
    THEN [ ret |-> "UnexpectedEOF", d |-> d, g |-> g, out |-> <<>> ]
    ELSE IF ~starts_with(file_content, RPGM_HEADER)
    THEN [ ret |-> "InvalidHeader", d |-> d, g |-> g, out |-> <<>> ]
    ELSE LET post_header == Slice(file_content, HEADER_LENGTH, 2 * HEADER_LENGTH)
         IN CASE file_type = "M4A" ->
                   set_key_from_file_m4a(d, g, file_content, post_header, overflow_checks)
              [] file_type = "OGG" ->
                   set_key_from_file_ogg(d, g, file_content, post_header)
              [] file_type = "PNG" ->
                   derive_and_store(d, g, "PNG", post_header)

\* Decrypter::set_key_from_file.  d is the Decrypter, g the two static
\* reference headers; the result carries both as the call leaves them.
set_key_from_file(d, g, file_content, file_type, overflow_checks) ==
    IF ~starts_with(file_content, RPGM_HEADER)
    THEN [ ret |-> "InvalidHeader", d |-> d, g |-> g, out |-> <<>> ]
    ELSE IF Len(file_content) < 2 * HEADER_LENGTH
    THEN [ ret |-> "UnexpectedEOF", d |-> d, g |-> g, out |-> <<>> ]
    ELSE LET post_header == Slice(file_content, HEADER_LENGTH, 2 * HEADER_LENGTH)
         IN CASE file_type = "M4A" ->
                   set_key_from_file_m4a(d, g, file_content, post_header, overflow_checks)
              [] file_type = "OGG" ->
                   set_key_from_file_ogg(d, g, file_content, post_header)
              [] file_type = "PNG" ->
                   derive_and_store(d, g, "PNG", post_header)

\* The `?` on set_key_from_file's result and the lines after it in decrypt:
\* k is the outcome of the key step, the copy past the marker is XORed.
decrypt_copy(k, file_content) ==
    IF k.ret # "Ok"
    THEN [ ret |-> k.ret, d |-> k.d, g |-> k.g, out |-> <<>> ]
    ELSE [ ret |-> "Ok", d |-> k.d, g |-> k.g,
           out |-> xor_buffer(k.d, SliceFrom(file_content, HEADER_LENGTH)) ]

\* The key step of decrypt and decrypt_in_place: derive a key only when
\* none is held.
key_step(d, g, file_content, file_type, overflow_checks) ==
    IF ~d.has_key
    THEN set_key_from_file(d, g, file_content, file_type, overflow_checks)
    ELSE [ ret |-> "Ok", d |-> d, g |-> g, out |-> <<>> ]

\* Decrypter::decrypt
decrypt(d, g, file_content, file_type, overflow_checks) ==
    IF ~starts_with(file_content, RPGM_HEADER)
    THEN [ ret |-> "InvalidHeader", d |-> d, g |-> g, out |-> <<>> ]
    ELSE decrypt_copy(key_step(d, g, file_content, file_type, overflow_checks),
                      file_content)

\* A mutant of decrypt_slice: the XOR starts at the head of the buffer, not
\* past the marker.
decrypt_slice_from_start(k, file_content) ==
    IF k.ret # "Ok"
    THEN [ ret |-> k.ret, d |-> k.d, g |-> k.g, out |-> <<>>, buf |-> file_content ]
    ELSE [ ret |-> "Ok", d |-> k.d, g |-> k.g,
           out |-> SliceFrom(xor_buffer(k.d, file_content), HEADER_LENGTH),
           buf |-> xor_buffer(k.d, file_content) ]

\* The `?` and the lines after it in decrypt_in_place: the buffer past the
\* marker is XORed where it lies and returned as a slice.
decrypt_slice(k, file_content) ==
    IF k.ret # "Ok"
    THEN [ ret |-> k.ret, d |-> k.d, g |-> k.g, out |-> <<>>, buf |-> file_content ]
    ELSE [ ret |-> "Ok", d |-> k.d, g |-> k.g,
           out |-> xor_buffer(k.d, SliceFrom(file_content, HEADER_LENGTH)),
           buf |-> Slice(file_content, 0, HEADER_LENGTH)
                   \o xor_buffer(k.d, SliceFrom(file_content, HEADER_LENGTH)) ]

\* Decrypter::decrypt_in_place: `buf` is the caller's buffer after the call,
\* `out` the returned slice of it.
decrypt_in_place(d, g, file_content, file_type, overflow_checks) ==
    IF ~starts_with(file_content, RPGM_HEADER)
    THEN [ ret |-> "InvalidHeader", d |-> d, g |-> g, out |-> <<>>,
           buf |-> file_content ]
    ELSE decrypt_slice(key_step(d, g, file_content, file_type, overflow_checks),
                       file_content)

\* A mutant of encrypt: the marker is not prepended.
encrypt_no_marker(d, file_content) ==
    IF ~d.has_key THEN [ ret |-> "KeyNotSet", out |-> <<>> ]
    ELSE [ ret |-> "Ok", out |-> xor_buffer(d, file_content) ]

\* Decrypter::encrypt
encrypt(d, file_content) ==
    IF ~d.has_key THEN [ ret |-> "KeyNotSet", out |-> <<>> ]
    ELSE [ ret |-> "Ok", out |-> RPGM_HEADER \o xor_buffer(d, file_content) ]

\* A mutant of encrypt_in_place: the key test is missing.
encrypt_in_place_unchecked(d, file_content) ==
    [ ret |-> "Ok", buf |-> xor_buffer(d, file_content) ]

\* A mutant of encrypt_in_place: every byte is XORed, the key repeating.
encrypt_in_place_whole(d, file_content) ==
    IF ~d.has_key THEN [ ret |-> "KeyNotSet", buf |-> file_content ]
    ELSE [ ret |-> "Ok",
           buf |-> [i \in 1..Len(file_content) |->
                      Xor(file_content[i], d.key[((i - 1) % KEY_LENGTH) + 1])] ]

\* Decrypter::encrypt_in_place: `buf` is the caller's buffer after the call.
encrypt_in_place(d, file_content) ==
    IF ~d.has_key THEN [ ret |-> "KeyNotSet", buf |-> file_content ]
    ELSE [ ret |-> "Ok", buf |-> xor_buffer(d, file_content) ]

(***************************************************************************)
(* Inputs: the key strings and buffers the callers pass                    *)
(***************************************************************************)
\* Number of keys besides the default key.
NumKeys == 1
\* Longest payload that follows a 16-byte PNG header.
MaxTail == 1
\* Largest first-page segment count below 255 of the Ogg streams.
MaxSegs == 1

\* The ASCII code of the lowercase hex digit of n \in 0..15
HexDigit(n) == IF n < 10 THEN 48 + n ELSE 87 + n

\* The lowercase hex text of a byte sequence: two digits per byte, the high
\* nibble first.
HexOf(bytes) ==
    [j \in 1..(2 * Len(bytes)) |->
        LET b == bytes[((j - 1) \div 2) + 1]
        IN IF j % 2 = 1 THEN HexDigit(b \div 16) ELSE HexDigit(b % 16)]

\* The 16 bytes a 32-character hex text stands for.
BytesOf(hex) ==
    [j \in 1..(Len(hex) \div 2) |-> from_str_radix(<<hex[2 * j - 1], hex[2 * j]>>)]

TestKey(k) == [i \in 1..KEY_LENGTH |-> (k * 73 + i * 29) % 256]

Keys == {BytesOf(DEFAULT_KEY)} \cup {TestKey(k) : k \in 1..NumKeys}

\* ASCII upper case of the letters a..f
Upper(s) == [i \in 1..Len(s) |-> IF s[i] \in 97..102 THEN s[i] - 32 ELSE s[i]]

\* s with the byte at (1-based) position p replaced by c
Poke(s, p, c) == [i \in 1..Len(s) |-> IF i = p THEN c ELSE s[i]]

\* 32 characters, each one of 0-9, a-f, A-F
IsHexString(s) ==
    /\ Len(s) = KEY_STR_LENGTH
    /\ \A i \in 1..Len(s) : to_digit(s[i]) >= 0

\* 32 characters, each one of 0-9, a-f
IsLowerHexString(s) ==
    /\ Len(s) = KEY_STR_LENGTH
    /\ \A i \in 1..Len(s) : s[i] \in 48..57 \cup 97..102

ValidKeyStrings ==
    {HexOf(k) : k \in Keys} \cup {Upper(DEFAULT_KEY)}

\* Not 32 hex characters: "short", the empty string, 31 and 33 hex
\* characters, and 32 characters with a 'g' or a '+' among them.
InvalidKeyStrings ==
    { <<115, 104, 111, 114, 116>>, <<>>,
      SubSeq(DEFAULT_KEY, 1, KEY_STR_LENGTH - 1), DEFAULT_KEY \o <<48>>,
      Poke(DEFAULT_KEY, 1, 103), Poke(DEFAULT_KEY, 20, 103),
      Poke(DEFAULT_KEY, 1, 43) }

KeyStrings == ValidKeyStrings \cup InvalidKeyStrings

Payload(t) == [i \in 1..t |-> (i * 7 + 1) % 256]

PngPlain(t) == PNG_HEADER \o Payload(t)

\* A 64-byte M4A start: the ftyp box, filler chunks ("isom") and an "mdat"
\* tag at each chunk index of idxs; the ftyp box size is the offset of the
\* chunk before the first tag.
M4aPlain(idxs) ==
    LET first == IF idxs = {} THEN 8 ELSE CHOOSE i \in idxs : \A k \in idxs : i <= k
        chunk(i) ==
            IF i = 0 THEN to_be_bytes((first - 1) * CHUNK_SIZE)
            ELSE IF i = 1 THEN <<102, 116, 121, 112>>
            ELSE IF i = 2 THEN <<77, 52, 65, 32>>
            ELSE IF i = 3 THEN <<0, 0, 2, 0>>
            ELSE IF i \in idxs THEN <<109, 100, 97, 116>>
            ELSE <<105, 115, 111, 109>>
    IN [k \in 1..M4A_SCAN_LENGTH |-> chunk((k - 1) \div CHUNK_SIZE)[((k - 1) % CHUNK_SIZE) + 1]]

\* The stream serial number (little-endian) of the stream with n segments
Serial(n) == <<(n % 2) + 1, 200, 7, 1>>

\* An Ogg stream: a first page with n segments of one byte each, a second
\* page with one segment, and the bytes that follow it.
OggPlain(n) ==
    LET page1 == <<79, 103, 103, 83, 0, 2>> \o [i \in 1..8 |-> 0] \o Serial(n)
                 \o <<0, 0, 0, 0>> \o <<1, 2, 3, 4>> \o <<n>>
                 \o [i \in 1..n |-> 1] \o [i \in 1..n |-> 9]
        page2 == <<79, 103, 103, 83, 0, 0>> \o <<5, 0, 0, 0, 0, 0, 0, 0>> \o Serial(n)
                 \o <<1, 0, 0, 0>> \o <<4, 3, 2, 1>> \o <<1>>
                 \o <<3>> \o <<8, 8, 8>>
    IN page1 \o page2 \o [i \in 1..(U8_MAX - 4) |-> 0]

\* What the engine writes for plaintext P under key bytes K: the marker,
\* then P with its first 16 bytes XORed with K.
Enc(P, K) ==
    RPGM_HEADER \o [i \in 1..Len(P) |-> IF i <= KEY_LENGTH THEN Xor(P[i], K[i]) ELSE P[i]]

\* buffer with the 4-byte chunk at chunk index i after the marker replaced
\* by "moov"
WithTag(buffer, i) ==
    [k \in 1..Len(buffer) |->
        IF k - HEADER_LENGTH - i * CHUNK_SIZE \in 1..CHUNK_SIZE
        THEN <<109, 111, 111, 118>>[k - HEADER_LENGTH - i * CHUNK_SIZE]
        ELSE buffer[k]]

PngFiles == {Enc(PngPlain(t), K) : t \in 0..MaxTail, K \in Keys}

\* M4A starts with no tag, one tag and two tags in the scanned window, and
\* two whose encrypted header itself holds a tag (chunk 0 and chunk 2).
M4aFiles ==
    {Enc(M4aPlain(idxs), K) : idxs \in {{}, {7}}, K \in Keys}
    \cup {Enc(M4aPlain({5, 7}), BytesOf(DEFAULT_KEY))}
    \cup {WithTag(Enc(M4aPlain({}), BytesOf(DEFAULT_KEY)), i) : i \in {0, 2}}

OggFiles ==
    {Enc(OggPlain(n), K) : n \in 1..MaxSegs, K \in Keys}
    \cup {Enc(OggPlain(U8_MAX), BytesOf(DEFAULT_KEY))}

\* Buffers cut short, buffers whose marker is damaged, and a bare PNG.
BrokenFiles ==
    {SubSeq(Enc(PngPlain(0), BytesOf(DEFAULT_KEY)), 1, n) : n \in {0, 16, 31}}
    \cup {SubSeq(Enc(M4aPlain({7}), BytesOf(DEFAULT_KEY)), 1, 79)}
    \cup {SubSeq(Enc(OggPlain(1), BytesOf(DEFAULT_KEY)), 1, n) :
            n \in {40, HEADER_LENGTH + 2 * HEADER_SIZE + 6,
                   Len(OggPlain(1)) + HEADER_LENGTH - 1}}
    \cup {Poke(Enc(PngPlain(0), BytesOf(DEFAULT_KEY)), p, 7) : p \in {1, 16}}
    \cup {PngPlain(MaxTail)}

Files == PngFiles \cup M4aFiles \cup OggFiles \cup BrokenFiles

\* Plaintexts handed to encrypt: whole files and ones shorter than a header.
Plains ==
    {PngPlain(t) : t \in 0..MaxTail}
    \cup {SubSeq(PNG_HEADER, 1, n) : n \in {0, 5, 15}}
    \cup {M4aPlain({7})}

(***************************************************************************)
(* The state machine: one Decrypter instance at a time, the two static     *)
(* reference headers of the process, and the last call with its outcome.   *)
(*                                                                         *)
(* `i - 1` at chunk 0 of the M4A scan overflows usize: a build with        *)
(* overflow checks panics there, one without wraps.  Each call that may    *)
(* derive a key is taken under both (overflow_checks \in BOOLEAN).         *)
(***************************************************************************)
VARIABLES
    key_hex,          \* Decrypter.key_hex
    key,              \* Decrypter.key
    has_key,          \* Decrypter.has_key
    OGG_HEADER,       \* static mut OGG_HEADER
    M4A_HEADER,       \* static mut M4A_HEADER
    op,               \* the last call
    arg,              \* its key string or buffer, as passed
    file_type,        \* its FileType, "-" when it takes none
    ret,              \* "Ok", one of Errors, or "Panic"
    out,              \* the returned Vec, slice or key string
    buf,              \* the caller's buffer after the call
    pre,              \* the Decrypter as it was before the call
    chain,            \* the call whose output this call was given
    calls             \* the set_key_from_file calls running on other threads

vars == << key_hex, key, has_key, OGG_HEADER, M4A_HEADER,
           op, arg, file_type, ret, out, buf, pre, chain, calls >>

self == [ key_hex |-> key_hex, key |-> key, has_key |-> has_key ]

statics == [ OGG_HEADER |-> OGG_HEADER, M4A_HEADER |-> M4A_HEADER ]

NoChain == [ op |-> "-", arg |-> <<>> ]

\* No call is running on another thread.
NoCalls == <<>>

\* One Decrypter just made, no call on it yet, the statics as declared
InitInstance ==
    /\ key_hex = Decrypter_new.key_hex
    /\ key = Decrypter_new.key
    /\ has_key = Decrypter_new.has_key
    /\ OGG_HEADER = OGG_HEADER_INIT
    /\ M4A_HEADER = M4A_HEADER_INIT
    /\ op = "-"
    /\ arg = <<>>
    /\ file_type = "-"
    /\ ret = "Ok"
    /\ out = <<>>
    /\ buf = <<>>
    /\ pre = Decrypter_new
    /\ chain = NoChain

Init ==
    /\ InitInstance
    /\ calls = NoCalls

\* The caller is between calls: the result of the last call, if any, has
\* been dropped.
Idle == op = "-"

\* The caller drops the buffers and the result of the last call.  A panic
\* ends the run: nothing follows it.
Drop ==
    /\ op # "-"
    /\ ret # "Panic"
    /\ op' = "-" /\ arg' = <<>> /\ file_type' = "-" /\ ret' = "Ok"
    /\ out' = <<>> /\ buf' = <<>> /\ pre' = self /\ chain' = NoChain
    /\ UNCHANGED << key_hex, key, has_key, OGG_HEADER, M4A_HEADER >>
    /\ UNCHANGED calls

\* The Decrypter after a call
Store(d) ==
    /\ key_hex' = d.key_hex
    /\ key' = d.key
    /\ has_key' = d.has_key

\* The static headers after a call
StoreStatics(g) ==
    /\ OGG_HEADER' = g.OGG_HEADER
    /\ M4A_HEADER' = g.M4A_HEADER

\* Decrypter::new(): the caller drops the instance and makes another one;
\* the statics live on.
New ==
    /\ Idle
    /\ Store(Decrypter_new)
    /\ op' = "new" /\ arg' = <<>> /\ file_type' = "-" /\ ret' = "Ok"
    /\ out' = <<>> /\ buf' = <<>> /\ pre' = self /\ chain' = NoChain
    /\ UNCHANGED << OGG_HEADER, M4A_HEADER >>
    /\ UNCHANGED calls

SetKeyFromStr ==
    /\ Idle
    /\ \E s \in KeyStrings :
        LET r == set_key_from_str(self, s)
        IN /\ Store(r.d)
           /\ op' = "set_key_from_str" /\ arg' = s /\ file_type' = "-"
           /\ ret' = r.ret
           /\ out' = IF r.ret = "Ok" THEN key_get(r.d).str ELSE <<>>
           /\ buf' = s
    /\ pre' = self /\ chain' = NoChain
    /\ UNCHANGED << OGG_HEADER, M4A_HEADER >>
    /\ UNCHANGED calls

SetKeyFromFile ==
    /\ Idle
    /\ \E B \in Files, t \in FileType, overflow_checks \in BOOLEAN :
        LET r == set_key_from_file(self, statics, B, t, overflow_checks)
        IN /\ Store(r.d) /\ StoreStatics(r.g)
           /\ op' = "set_key_from_file" /\ arg' = B /\ file_type' = t
           /\ ret' = r.ret /\ out' = r.out /\ buf' = B
    /\ pre' = self /\ chain' = NoChain
    /\ UNCHANGED calls

\* decrypt on buffer B, handed over by the call in c
DecryptCall(B, t, overflow_checks, c) ==
    LET r == decrypt(self, statics, B, t, overflow_checks)
    IN /\ Store(r.d) /\ StoreStatics(r.g)
       /\ op' = "decrypt" /\ arg' = B /\ file_type' = t
       /\ ret' = r.ret /\ out' = r.out /\ buf' = B
       /\ pre' = self /\ chain' = c
   
Decrypt ==
    /\ Idle
    /\ \E B \in Files, t \in FileType, overflow_checks \in BOOLEAN :
        DecryptCall(B, t, overflow_checks, NoChain)
    /\ UNCHANGED calls

\* The round trip of the tests: decrypt what encrypt has just returned.
DecryptEncrypted ==
    /\ op = "encrypt" /\ ret = "Ok"
    /\ \E t \in FileType, overflow_checks \in BOOLEAN :
        DecryptCall(out, t, overflow_checks, [op |-> "encrypt", arg |-> arg])
    /\ UNCHANGED calls

DecryptInPlace ==
    /\ Idle
    /\ \E B \in Files, t \in FileType, overflow_checks \in BOOLEAN :
        LET r == decrypt_in_place(self, statics, B, t, overflow_checks)
        IN /\ Store(r.d) /\ StoreStatics(r.g)
           /\ op' = "decrypt_in_place" /\ arg' = B /\ file_type' = t
           /\ ret' = r.ret /\ out' = r.out /\ buf' = r.buf
    /\ pre' = self /\ chain' = NoChain
    /\ UNCHANGED calls

\* encrypt on plaintext P, handed over by the call in c
EncryptCall(P, c) ==
    LET r == encrypt(self, P)
    IN /\ op' = "encrypt" /\ arg' = P /\ file_type' = "-"
       /\ ret' = r.ret /\ out' = r.out /\ buf' = P
       /\ pre' = self /\ chain' = c
       /\ UNCHANGED << key_hex, key, has_key, OGG_HEADER, M4A_HEADER >>

Encrypt ==
    /\ Idle
    /\ \E P \in Plains : EncryptCall(P, NoChain)
    /\ UNCHANGED calls

\* The other round trip: encrypt what decrypt has just returned.
EncryptDecrypted ==
    /\ op = "decrypt" /\ ret = "Ok" /\ chain = NoChain
    /\ EncryptCall(out, [op |-> "decrypt", arg |-> arg])
    /\ UNCHANGED calls

EncryptInPlace ==
    /\ Idle
    /\ \E P \in Plains :
        LET r == encrypt_in_place(self, P)
        IN /\ op' = "encrypt_in_place" /\ arg' = P /\ file_type' = "-"
           /\ ret' = r.ret /\ out' = <<>> /\ buf' = r.buf
    /\ pre' = self /\ chain' = NoChain
    /\ UNCHANGED << key_hex, key, has_key, OGG_HEADER, M4A_HEADER >>
    /\ UNCHANGED calls

\* encrypt_in_place once more, on the buffer the last encrypt_in_place left.
EncryptInPlaceAgain ==
    /\ op = "encrypt_in_place" /\ ret = "Ok" /\ chain = NoChain
    /\ LET r == encrypt_in_place(self, buf)
       IN /\ op' = "encrypt_in_place" /\ arg' = buf /\ file_type' = "-"
          /\ ret' = r.ret /\ out' = <<>> /\ buf' = r.buf
    /\ pre' = self /\ chain' = [op |-> "encrypt_in_place", arg |-> arg]
    /\ UNCHANGED << key_hex, key, has_key, OGG_HEADER, M4A_HEADER >>
    /\ UNCHANGED calls

Next ==
    \/ Drop
    \/ New
    \/ SetKeyFromStr
    \/ SetKeyFromFile
    \/ Decrypt
    \/ DecryptEncrypted
    \/ DecryptInPlace
    \/ Encrypt
    \/ EncryptDecrypted
    \/ EncryptInPlace
    \/ EncryptInPlaceAgain

Spec == Init /\ [][Next]_vars

(***************************************************************************)
(* set_key_from_file on two threads, each on a Decrypter of its own.  The  *)
(* two static headers are the only memory the calls share; they are        *)
(* written and read without synchronisation, so a call is taken one byte   *)
(* written or one byte read at a time, and the steps of the two calls      *)
(* interleave freely.                                                      *)
(***************************************************************************)
Threads == {1, 2}

\* Pairs of different files of one media type, one file for each thread:
\* Ogg streams with different serial numbers, M4A starts with the first box
\* tag at different chunks.
ConcurrentFiles ==
    { [ file_type |-> "OGG",
        file_content |-> << Enc(OggPlain(1), BytesOf(DEFAULT_KEY)),
                            Enc(OggPlain(2), BytesOf(DEFAULT_KEY)) >> ],
      [ file_type |-> "M4A",
        file_content |-> << Enc(M4aPlain({7}), BytesOf(DEFAULT_KEY)),
                            Enc(M4aPlain({5}), TestKey(1)) >> ] }

RECURSIVE m4a_writes(_, _)
\* The byte writes to M4A_HEADER[..4] the scan makes from chunk i on, in
\* program order: <<index, byte>> for each byte of each matching chunk.
m4a_writes(file_start, i) ==
    IF i * CHUNK_SIZE >= Len(file_start) THEN <<>>
    ELSE IF Slice(file_start, i * CHUNK_SIZE, (i + 1) * CHUNK_SIZE)
                \in M4A_POST_HEADER_BOXES
         THEN [k \in 1..CHUNK_SIZE |-> <<k - 1, header_type_box_size_bytes(i - 1)[k]>>]
              \o m4a_writes(file_start, i + 1)
         ELSE m4a_writes(file_start, i + 1)

\* The byte writes to OGG_HEADER[14..16]: the two low bytes of serialno.
ogg_writes(serialno) ==
    [k \in 1..2 |-> <<SERIALNO_POS + k - 1, to_le_bytes(serialno)[k]>>]

\* A call that has returned r without reaching the static headers
Returned(c, r) ==
    [c EXCEPT !.pc = "done", !.ret = r]

\* Thread t enters set_key_from_file: the marker and length tests, then
\* what the branch of the media type works out from the buffer alone - the
\* writes it is about to make to its static header.
BeginSetKeyFromFile(t) ==
    /\ calls[t].pc = "call"
    /\ \E overflow_checks \in BOOLEAN :
        LET c == calls[t]
            B == c.file_content
            content == SliceFrom(B, HEADER_LENGTH)
        IN calls' = [calls EXCEPT ![t] =
            IF ~starts_with(B, RPGM_HEADER) THEN Returned(c, "InvalidHeader")
            ELSE IF Len(B) < 2 * HEADER_LENGTH THEN Returned(c, "UnexpectedEOF")
            ELSE IF c.file_type = "M4A"
            THEN IF Len(B) < HEADER_LENGTH + M4A_SCAN_LENGTH
                 THEN Returned(c, "UnexpectedEOF")
                 ELSE IF m4a_scan(M4A_HEADER_INIT,
                            Slice(B, HEADER_LENGTH, HEADER_LENGTH + M4A_SCAN_LENGTH),
                            0, overflow_checks).panic
                 THEN Returned(c, "Panic")
                 ELSE [c EXCEPT !.pc = "write",
                         !.writes = m4a_writes(
                            Slice(B, HEADER_LENGTH, HEADER_LENGTH + M4A_SCAN_LENGTH), 0)]
            ELSE IF c.file_type = "OGG"
            THEN IF \/ read_ogg_page_serialno(content, 0).panic
                    \/ read_ogg_page_serialno(content,
                            read_ogg_page_serialno(content, 0).pos).panic
                 THEN Returned(c, "Panic")
                 ELSE [c EXCEPT !.pc = "write",
                         !.writes = ogg_writes(
                            read_ogg_page_serialno(content,
                                read_ogg_page_serialno(content, 0).pos).serialno)]
            ELSE [c EXCEPT !.pc = "write"]]
    /\ UNCHANGED << key_hex, key, has_key, OGG_HEADER, M4A_HEADER,
                    op, arg, file_type, ret, out, buf, pre, chain >>

\* Thread t stores the next byte into its static header; with none left it
\* goes on to the key loop.
WriteHeader(t) ==
    /\ calls[t].pc = "write"
    /\ LET c == calls[t]
       IN IF c.writes = <<>>
          THEN /\ calls' = [calls EXCEPT ![t] = [c EXCEPT !.pc = "read"]]
               /\ UNCHANGED << OGG_HEADER, M4A_HEADER >>
          ELSE /\ calls' = [calls EXCEPT ![t] = [c EXCEPT !.writes = Tail(c.writes)]]
               /\ IF c.file_type = "OGG"
                  THEN /\ OGG_HEADER' = [OGG_HEADER EXCEPT
                                            ![Head(c.writes)[1] + 1] = Head(c.writes)[2]]
                       /\ UNCHANGED M4A_HEADER
                  ELSE /\ M4A_HEADER' = [M4A_HEADER EXCEPT
                                            ![Head(c.writes)[1] + 1] = Head(c.writes)[2]]
                       /\ UNCHANGED OGG_HEADER
    /\ UNCHANGED << key_hex, key, has_key,
                    op, arg, file_type, ret, out, buf, pre, chain >>

\* One turn of the key loop of thread t: signature byte i is read from the
\* static header as it is now and two characters of key_hex are written.
ReadSignatureByte(t) ==
    /\ calls[t].pc = "read"
    /\ calls[t].i < HEADER_LENGTH
    /\ LET c == calls[t]
           value == Xor(signature_byte(statics, c.file_type, c.i),
                        c.file_content[HEADER_LENGTH + c.i + 1])
       IN calls' = [calls EXCEPT ![t] =
            [c EXCEPT !.i = c.i + 1,
                      !.d = [c.d EXCEPT !.key_hex =
                                [j \in 1..KEY_STR_LENGTH |->
                                    IF j = 2 * c.i + 1 THEN hex_pair(value)[1]
                                    ELSE IF j = 2 * c.i + 2 THEN hex_pair(value)[2]
                                    ELSE c.d.key_hex[j]]]]]
    /\ UNCHANGED << key_hex, key, has_key, OGG_HEADER, M4A_HEADER,
                    op, arg, file_type, ret, out, buf, pre, chain >>

\* The loop of thread t is over: set_key_from_hex, and the call returns
\* key_hex.
FinishSetKeyFromFile(t) ==
    /\ calls[t].pc = "read"
    /\ calls[t].i = HEADER_LENGTH
    /\ LET c == calls[t]
           r == set_key_from_hex(c.d)
       IN calls' = [calls EXCEPT ![t] =
            [c EXCEPT !.pc = "done", !.d = r.d,
                      !.ret = IF r.panic THEN "Panic" ELSE "Ok",
                      !.out = r.d.key_hex]]
    /\ UNCHANGED << key_hex, key, has_key, OGG_HEADER, M4A_HEADER,
                    op, arg, file_type, ret, out, buf, pre, chain >>

\* Each thread holds a new Decrypter and is about to call set_key_from_file
\* on its file.
InitConcurrent ==
    /\ InitInstance
    /\ \E pair \in ConcurrentFiles :
        calls = [t \in Threads |->
                    [ pc |-> "call", file_type |-> pair.file_type,
                      file_content |-> pair.file_content[t],
                      d |-> Decrypter_new, writes |-> <<>>, i |-> 0,
                      ret |-> "-", out |-> <<>> ]]

NextConcurrent ==
    \/ \E t \in Threads : BeginSetKeyFromFile(t)
    \/ \E t \in Threads : WriteHeader(t)
    \/ \E t \in Threads : ReadSignatureByte(t)
    \/ \E t \in Threads : FinishSetKeyFromFile(t)

SpecConcurrent == InitConcurrent /\ [][NextConcurrent]_vars

(***************************************************************************)
(* Claims                                                                  *)
(***************************************************************************)
PNG_SIGNATURE == <<137, 80, 78, 71, 13, 10, 26, 10>>
OGG_SIGNATURE == <<79, 103, 103, 83>>
M4A_SIGNATURE == <<102, 116, 121, 112, 77, 52, 65, 32>>

\* The calls that take an enveloped buffer
DecryptingOps == {"set_key_from_file", "decrypt", "decrypt_in_place"}

\* C1: for every media type and every buffer of at least 32 bytes that
\* starts with the marker, decrypt succeeds, and encrypt on the same
\* instance, given the returned plaintext, returns the buffer again.
C1_DecryptThenEncryptRestores ==
    /\ (op = "decrypt" /\ starts_with(arg, RPGM_HEADER)
            /\ Len(arg) >= 2 * HEADER_LENGTH)
        => ret = "Ok"
    /\ (op = "encrypt" /\ chain.op = "decrypt")
        => (ret = "Ok" /\ out = chain.arg)

\* C2: on a Decrypter that holds a key, decrypt of what encrypt returned for
\* a plaintext P of any length succeeds and returns exactly P, for every
\* media type, and leaves the key as it was; a PNG plaintext comes back
\* starting with the PNG signature.
C2_EncryptThenDecryptRestores ==
    (op = "decrypt" /\ chain.op = "encrypt")
        => /\ ret = "Ok"
           /\ out = chain.arg
           /\ self = pre
           /\ starts_with(chain.arg, PNG_SIGNATURE) => starts_with(out, PNG_SIGNATURE)

\* C2 witness: a PNG plaintext encrypted under the default key has been
\* decrypted again.
C2_Witness ==
    /\ op = "decrypt" /\ chain.op = "encrypt" /\ ret = "Ok"
    /\ key_hex = DEFAULT_KEY
    /\ Len(out) > HEADER_LENGTH
    /\ starts_with(out, PNG_SIGNATURE)

\* C3: set_key_from_str on a valid 32-character hex string returns Ok, and
\* key() then returns that very string, whether or not a key was set before.
C3_KeyStringRoundTrip ==
    (op = "set_key_from_str" /\ IsHexString(arg))
        => /\ ret = "Ok"
           /\ key_get(self).some
           /\ key_get(self).str = arg
           /\ out = arg

\* C3 witness: a valid string has replaced a different key.
C3_Witness ==
    /\ op = "set_key_from_str" /\ IsHexString(arg) /\ ret = "Ok"
    /\ pre.has_key /\ pre.key_hex # arg

\* C4: set_key_from_str returns InvalidKeyLength for every string that is
\* not 32 hex characters, and leaves the key state as it was.
C4_InvalidKeyStringRejected ==
    (op = "set_key_from_str" /\ ~IsHexString(arg))
        => (ret = "InvalidKeyLength" /\ self = pre)

\* C5: set_key_from_file, decrypt and decrypt_in_place return InvalidHeader
\* for every buffer that does not start with the marker; set_key_from_file
\* returns UnexpectedEOF for a buffer with the marker and fewer than 32
\* bytes; either way the key state and the caller's buffer stay as they
\* were.
C5_HeaderAndLengthErrors ==
    /\ (op \in DecryptingOps /\ ~starts_with(arg, RPGM_HEADER))
        => (ret = "InvalidHeader" /\ self = pre /\ buf = arg)
    /\ (op = "set_key_from_file" /\ starts_with(arg, RPGM_HEADER)
            /\ Len(arg) < 2 * HEADER_LENGTH)
        => (ret = "UnexpectedEOF" /\ self = pre /\ buf = arg)

\* C5 witness: a Decrypter that holds a key has refused a buffer with the
\* marker and fewer than 32 bytes.
C5_Witness ==
    /\ op = "set_key_from_file" /\ ret = "UnexpectedEOF"
    /\ starts_with(arg, RPGM_HEADER) /\ Len(arg) < 2 * HEADER_LENGTH
    /\ pre.has_key

\* C6: without a key, encrypt and encrypt_in_place return KeyNotSet, the
\* Decrypter stays without a key, and the caller's buffer is as it was.
C6_EncryptNeedsKey ==
    (op \in {"encrypt", "encrypt_in_place"} /\ ~pre.has_key)
        => /\ ret = "KeyNotSet"
           /\ self = pre
           /\ ~has_key
           /\ buf = arg
           /\ out = <<>>

\* C6 witness: encrypt_in_place has refused a whole file for lack of a key.
C6_Witness ==
    /\ op = "encrypt_in_place" /\ ~pre.has_key /\ ret = "KeyNotSet"
    /\ Len(arg) > HEADER_LENGTH

\* C7: every call ends with Ok or one of the typed errors; none panics.
C7_NoPanic == ret \in {"Ok"} \cup Errors

\* C8: either no key is held, or key_hex is 32 lowercase hex characters and
\* key is its decoding.
C8_NoPartialKeyState ==
    has_key =>
        /\ IsLowerHexString(key_hex)
        /\ \A j \in 1..KEY_LENGTH :
            key[j] = 16 * to_digit(key_hex[2 * j - 1]) + to_digit(key_hex[2 * j])

\* The 16 bytes after the marker XORed with the PNG reference header.
PngKeyOf(B) ==
    [i \in 1..KEY_LENGTH |-> XorBits(B[HEADER_LENGTH + i], PNG_HEADER[i])]

\* C9: set_key_from_file on an enveloped PNG returns the lowercase hex text
\* of (encrypted header XOR PNG reference header) and stores those bytes as
\* the key; for a PNG encrypted under K that key is K.
C9_PngKeyRecovery ==
    (op = "set_key_from_file" /\ file_type = "PNG"
        /\ starts_with(arg, RPGM_HEADER) /\ Len(arg) >= 2 * HEADER_LENGTH)
        => /\ ret = "Ok"
           /\ out = HexOf(PngKeyOf(arg))
           /\ key_hex = out
           /\ key = PngKeyOf(arg)
           /\ has_key
           /\ \A K \in Keys, t \in 0..MaxTail :
                arg = Enc(PngPlain(t), K) => (key = K /\ out = HexOf(K))

\* C9 witness: the key of a PNG encrypted under a key other than the
\* default one has been recovered.
C9_Witness ==
    /\ op = "set_key_from_file" /\ file_type = "PNG" /\ ret = "Ok"
    /\ arg = Enc(PngPlain(MaxTail), TestKey(1))
    /\ key = TestKey(1)

\* C10: without a key, a decrypt or decrypt_in_place that succeeds returns
\* a plaintext with the signature of the declared media type.
C10_DecryptedSignature ==
    (op \in {"decrypt", "decrypt_in_place"} /\ ~pre.has_key /\ ret = "Ok")
        => /\ file_type = "PNG" => starts_with(out, PNG_SIGNATURE)
           /\ file_type = "OGG" => starts_with(out, OGG_SIGNATURE)
           /\ file_type = "M4A" =>
                (Len(out) >= 12 /\ Slice(out, 4, 12) = M4A_SIGNATURE)

\* C10 witness: a key has been derived by decrypt_in_place from an M4A
\* start after the static M4A header had been rewritten by an earlier call.
C10_Witness ==
    /\ op = "decrypt_in_place" /\ file_type = "M4A"
    /\ ~pre.has_key /\ ret = "Ok"
    /\ M4A_HEADER # M4A_HEADER_INIT

\* The calls made on the instance at hand (New makes another instance)
InstanceOps ==
    {"set_key_from_str", "set_key_from_file", "decrypt", "decrypt_in_place",
     "encrypt", "encrypt_in_place"}

\* C11: a Decrypter that holds a key keeps holding one; it comes to hold one
\* only by a set_key_from_str, set_key_from_file, decrypt or
\* decrypt_in_place that returns Ok; and with a key held, decrypt,
\* decrypt_in_place, encrypt, encrypt_in_place and every call that fails
\* leave key_hex and key as they were.
C11_KeyLifecycle ==
    op \in InstanceOps =>
        /\ pre.has_key => has_key
        /\ (~pre.has_key /\ has_key) =>
                (ret = "Ok" /\ op \in DecryptingOps \cup {"set_key_from_str"})
        /\ (pre.has_key
                /\ (ret # "Ok" \/ op \notin {"set_key_from_str", "set_key_from_file"}))
            => (key_hex = pre.key_hex /\ key = pre.key)

\* C13: with a key held, encrypt_in_place on a buffer P leaves a buffer as
\* long as P that differs from P only below index 16, where each byte is
\* the byte of P XORed with the key byte at its index; encrypt on P returns
\* the marker followed by exactly that buffer, and leaves P as it was.
C13_EncryptInPlaceMatchesEncrypt ==
    /\ (op = "encrypt_in_place" /\ pre.has_key)
        => /\ ret = "Ok"
           /\ Len(buf) = Len(arg)
           /\ \A i \in 1..Len(arg) :
                buf[i] = IF i <= HEADER_LENGTH THEN XorBits(arg[i], pre.key[i])
                         ELSE arg[i]
           /\ encrypt(pre, arg).ret = "Ok"
           /\ encrypt(pre, arg).out = RPGM_HEADER \o buf
    /\ (op = "encrypt" /\ pre.has_key)
        => /\ ret = "Ok"
           /\ buf = arg
           /\ encrypt_in_place(pre, arg).ret = "Ok"
           /\ out = RPGM_HEADER \o encrypt_in_place(pre, arg).buf

\* C13 witness: encrypt_in_place has rewritten the head of a plaintext
\* longer than a header.
C13_Witness ==
    /\ op = "encrypt_in_place" /\ pre.has_key /\ ret = "Ok"
    /\ Len(arg) > HEADER_LENGTH
    /\ buf # arg

\* C14: when decrypt_in_place succeeds on a buffer B, the slice it returns,
\* the Decrypter and the static headers are what decrypt(B, type) gives
\* from the state the call started in; the buffer still starts with the
\* marker, has its length, and differs from B only at indices 16..31.
C14_DecryptInPlaceMatchesDecrypt ==
    [][ (op = "-" /\ op' = "decrypt_in_place" /\ ret' = "Ok") =>
          /\ \A overflow_checks \in BOOLEAN :
                decrypt_in_place(self, statics, arg', file_type', overflow_checks).ret = "Ok"
                => decrypt(self, statics, arg', file_type', overflow_checks)
                    = [ ret |-> "Ok", d |-> self', g |-> statics', out |-> out' ]
          /\ starts_with(buf', RPGM_HEADER)
          /\ Len(buf') = Len(arg')
          /\ \A i \in 1..Len(arg') :
                i \notin (HEADER_LENGTH + 1)..(2 * HEADER_LENGTH) => buf'[i] = arg'[i]
          /\ out' = SliceFrom(buf', HEADER_LENGTH)
      ]_vars

\* C14 witness: decrypt_in_place has derived a key and rewritten the head
\* of the payload of a buffer longer than 32 bytes.
C14_Witness ==
    /\ op = "decrypt_in_place" /\ ret = "Ok"
    /\ ~pre.has_key /\ has_key
    /\ Len(arg) > 2 * HEADER_LENGTH
    /\ buf # arg

\* The segment count in the first Ogg page header of buffer B (the header
\* starts at buffer offset 16, its last byte is the count)
FirstPageSegments(B) == B[HEADER_LENGTH + HEADER_SIZE]

\* The buffer offset just past the first page of B: header, segment table
\* of FirstPageSegments(B) entries, and the segments they measure
SecondPageOffset(B) ==
    HEADER_LENGTH + HEADER_SIZE + FirstPageSegments(B)
    + SumRange(B, HEADER_LENGTH + HEADER_SIZE + 1,
               HEADER_LENGTH + HEADER_SIZE + FirstPageSegments(B))

\* B is the marker and an Ogg stream that holds its first page, with 1 to
\* 255 segments, and a whole second page header after it.
HasTwoOggPages(B) ==
    /\ starts_with(B, RPGM_HEADER)
    /\ Len(B) >= HEADER_LENGTH + HEADER_SIZE
    /\ FirstPageSegments(B) \in 1..U8_MAX
    /\ Len(B) >= HEADER_LENGTH + HEADER_SIZE + FirstPageSegments(B)
    /\ Len(B) >= SecondPageOffset(B) + HEADER_SIZE

\* C15: set_key_from_file(B, OGG) on a buffer B with the marker, a first
\* page of n segments (1 <= n <= 255) whose table entries sum to L, and a
\* second page header at offset 16 + 27 + n + L returns Ok and leaves the
\* Ogg reference header as 4F 67 67 53 00 02, eight zero bytes, and bytes
\* 14 and 15 of that second page header.
C15_OggSecondPageSerial ==
    (op = "set_key_from_file" /\ file_type = "OGG" /\ HasTwoOggPages(arg))
        => /\ ret = "Ok"
           /\ OGG_HEADER =
                <<79, 103, 103, 83, 0, 2, 0, 0, 0, 0, 0, 0, 0, 0>>
                \o << arg[SecondPageOffset(arg) + SERIALNO_POS + 1],
                      arg[SecondPageOffset(arg) + SERIALNO_POS + 2] >>

\* The 4-byte chunk at chunk index i of the 64 bytes after the marker of B
WindowChunk(B, i) ==
    Slice(B, HEADER_LENGTH + i * CHUNK_SIZE, HEADER_LENGTH + (i + 1) * CHUNK_SIZE)

\* The chunk indices of the window of B that hold a recognized box tag
TagChunks(B) ==
    {i \in 0..((M4A_SCAN_LENGTH \div CHUNK_SIZE) - 1) :
        WindowChunk(B, i) \in M4A_POST_HEADER_BOXES}

\* The lowest of them
FirstTagChunk(B) == CHOOSE i \in TagChunks(B) : \A k \in TagChunks(B) : i <= k

\* B has the marker and the whole 64-byte window after it.
HasM4aWindow(B) ==
    /\ starts_with(B, RPGM_HEADER)
    /\ Len(B) >= HEADER_LENGTH + M4A_SCAN_LENGTH

\* C16: set_key_from_file(B, M4A) on a buffer whose first recognized box
\* tag is at chunk index i >= 1 of the window returns Ok and leaves
\* (i - 1) * 4, big-endian, in bytes 0..4 of the M4A reference header,
\* whatever the chunks after i hold.
C16_M4aBoxSizeFromFirstTag ==
    (op = "set_key_from_file" /\ file_type = "M4A" /\ HasM4aWindow(arg)
        /\ TagChunks(arg) # {} /\ FirstTagChunk(arg) >= 1)
        => /\ ret = "Ok"
           /\ Slice(M4A_HEADER, 0, CHUNK_SIZE)
                = <<0, 0, 0, (FirstTagChunk(arg) - 1) * CHUNK_SIZE>>

\* The 16 bytes after the marker XORed with the M4A reference header as
\* the source declares it.
M4aPlaceholderKeyOf(B) ==
    [i \in 1..KEY_LENGTH |-> XorBits(B[HEADER_LENGTH + i], M4A_HEADER_INIT[i])]

\* C17: whatever calls came before, set_key_from_file(B, M4A) on a buffer
\* of at least 80 bytes with no recognized box tag in its window returns
\* Ok, leaves 00 00 00 1C in bytes 0..4 of the M4A reference header, and
\* returns the key that header gives.
C17_M4aFallbackPlaceholder ==
    (op = "set_key_from_file" /\ file_type = "M4A" /\ HasM4aWindow(arg)
        /\ TagChunks(arg) = {})
        => /\ ret = "Ok"
           /\ Slice(M4A_HEADER, 0, CHUNK_SIZE) = <<0, 0, 0, 28>>
           /\ out = HexOf(M4aPlaceholderKeyOf(arg))
           /\ key = M4aPlaceholderKeyOf(arg)

\* C18: encrypt_in_place leaves every byte at index 16 or above as it was,
\* and a second encrypt_in_place with the same key on the buffer the first
\* one left gives back the buffer the first one was given.
C18_XorInvolution ==
    (op = "encrypt_in_place" /\ ret = "Ok")
        => /\ Len(buf) = Len(arg)
           /\ \A i \in (HEADER_LENGTH + 1)..Len(arg) : buf[i] = arg[i]
           /\ chain.op = "encrypt_in_place" => buf = chain.arg

\* C18 witness: two applications under a key with no zero byte have given
\* back a plaintext longer than a header, the first having changed each of
\* its first 16 bytes.
C18_Witness ==
    /\ op = "encrypt_in_place" /\ chain.op = "encrypt_in_place" /\ ret = "Ok"
    /\ \A i \in 1..KEY_LENGTH : key[i] # 0
    /\ Len(arg) > HEADER_LENGTH
    /\ \A i \in 1..HEADER_LENGTH : arg[i] # chain.arg[i]
    /\ buf = chain.arg

\* C19: with a key held, encrypt and encrypt_in_place on a plaintext of
\* fewer than 16 bytes, and decrypt and decrypt_in_place on a buffer with
\* the marker and fewer than 32 bytes, return an error and leave the
\* caller's buffer as it was; whatever a call returns, the buffer keeps its
\* length.
C19_ShortBufferRejected ==
    /\ (op \in {"encrypt", "encrypt_in_place"} /\ pre.has_key
            /\ Len(arg) < HEADER_LENGTH)
        => (ret \in Errors /\ buf = arg /\ out = <<>>)
    /\ (op \in {"decrypt", "decrypt_in_place"} /\ pre.has_key
            /\ starts_with(arg, RPGM_HEADER) /\ Len(arg) < 2 * HEADER_LENGTH)
        => (ret \in Errors /\ buf = arg /\ out = <<>>)
    /\ (op \in InstanceOps \ {"set_key_from_str"}) => Len(buf) = Len(arg)

\* What set_key_from_file returns for the buffer of thread t when it is the
\* only call running, on a new Decrypter in a new process.
KeyWhenAlone(t) ==
    set_key_from_file(Decrypter_new,
                      [ OGG_HEADER |-> OGG_HEADER_INIT, M4A_HEADER |-> M4A_HEADER_INIT ],
                      calls[t].file_content, calls[t].file_type, TRUE)

\* C12: when two threads call set_key_from_file on their own Decrypters for
\* different files of one media type, each call returns, however the steps
\* of the two interleave, what it returns when it runs alone.
C12_ConcurrentDerivationIsolated ==
    \A t \in Threads :
        calls[t].pc = "done" =>
            /\ calls[t].ret = KeyWhenAlone(t).ret
            /\ calls[t].out = KeyWhenAlone(t).out
            /\ calls[t].d = KeyWhenAlone(t).d

====
